---- MODULE Spec2Model ----
(***************************************************************************)
(* A model of spiders/question_finder.py: the QuestionFinder CrawlSpider.  *)
(* The spider's callbacks are operators from a response to what they       *)
(* yield (requests, items, log entries).  The engine that delivers         *)
(* responses, filters duplicate requests and follows the links of the      *)
(* Rule, and the server that answers the requests, are the environment.    *)
(***************************************************************************)
EXTENDS Integers, Sequences, FiniteSets, TLC

VARIABLES
    login_email,     \* self.login_email
    login_password,  \* self.login_password
    accepted,        \* server: whether the credentials are accepted
    public,          \* server: the pages served without a session
    session,         \* server: whether the crawler's session is logged in
    started,         \* start_requests has run
    queue,           \* engine: the requests in flight
    seen,            \* engine: fingerprints recorded by the duplicate filter
    ndisp,           \* engine: requests dispatched, per URL
    items,           \* page records emitted, per item
    log,             \* self.logger entries
    last,            \* the last callback run: its response and what it yielded
    drops,           \* session drops so far
    nerrors,         \* transport failures so far
    login_visits,    \* login-path responses parse_item has visited
    reauth_subs,     \* re-authentication login submissions yielded
    set_cookie,      \* get_csrf_token alone: the Set-Cookie headers given
    csrf_token       \* get_csrf_token alone: what it returned

vars == <<login_email, login_password, accepted, public, session, started,
          queue, seen, ndisp, items, log, last, drops, nerrors,
          login_visits, reauth_subs, set_cookie, csrf_token>>

----------------------------------------------------------------------------
(* Bounds *)

\* the server drops the session at most this many times
MaxDrops == 1
\* at most this many requests end in a transport failure
MaxErrors == 1
\* the per-URL and per-item counters saturate here ("Cap or more")
Cap == 2
\* get_csrf_token alone: at most this many Set-Cookie headers
MaxHeaders == 2

----------------------------------------------------------------------------
(* Module constants of question_finder.py *)

LOGIN_HTML_PATH == "/login"
LOGIN_API_PATH == "/user_api/v1/account/login_session/"
LOGIN_FAILURE_MSG == "We couldn't sign you in."

None == "None"

----------------------------------------------------------------------------
(* URLs: a scheme, a path, the value of the `next` query parameter (None   *)
(* when the URL has no such parameter) and the other parameters of the     *)
(* query string, in order; the host is self.domain.                        *)

\* the URLs of the site, as in self.start_urls
URL(path, next) ==
    [scheme |-> "https", path |-> path, next |-> next, query |-> <<>>]

\* the URLs the spider builds: URLObject("http://").with_hostname(...)
HttpURL(path, next) ==
    [scheme |-> "http", path |-> path, next |-> next, query |-> <<>>]

\* a URL of the site with a query string
URLQ(path, query) ==
    [scheme |-> "https", path |-> path, next |-> None, query |-> query]

Seed == "/courses/course-v1:edX+Test101+course/info"

\* self.start_urls
start_urls == <<URL(Seed, None)>>

\* the pages of the site (all on the allowed domain)
Pages == {Seed, "/a", "/b", "/c"}

ARCHIVE == "_accept=application/x-tgz"

\* the site's link graph: the <a href> links of each page
Links(path) ==
    CASE path = Seed -> {URL("/a", None), URL("/b", None)}
      [] path = "/a" -> {URL(Seed, None), URL("/c", None)}
      [] path = "/b" -> {URL("/a", None),
                         URLQ("/export", <<ARCHIVE>>),
                         URLQ("/export", <<"format=full", ARCHIVE>>)}
      [] path = "/c" -> {URL(LOGIN_HTML_PATH, None),
                         URL("/logout/", None),
                         URL("/xblock/v", None),
                         URL("/courses/c/xblock/v", None)}
      [] OTHER -> {}

\* the segments of a path; a last segment "" stands for a trailing slash
Segments(path) ==
    CASE path = Seed -> <<"courses", "course-v1:edX+Test101+course", "info">>
      [] path = "/a" -> <<"a">>
      [] path = "/b" -> <<"b">>
      [] path = "/c" -> <<"c">>
      [] path = "/export" -> <<"export">>
      [] path = "/logout/" -> <<"logout", "">>
      [] path = "/xblock/v" -> <<"xblock", "v">>
      [] path = "/courses/c/xblock/v" -> <<"courses", "c", "xblock", "v">>
      [] path = "/login" -> <<"login">>
      [] path = "/user_api/v1/account/login_session/" ->
            <<"user_api", "v1", "account", "login_session", "">>
      [] OTHER -> <<>>

\* the text of the first <title> element of each page (None: no title)
Title(path) ==
    CASE path = Seed -> "  Course Info  "
      [] path = "/a" -> "A"
      [] path = "/b" -> ""
      [] OTHER -> None

----------------------------------------------------------------------------
(* Responses *)

\* a Set-Cookie header "name=value" followed by `tail`: value is the run of
\* characters other than " " and ";" that follows "name=" (it may be empty),
\* and tail is what follows that run, delimiters and further runs in turn
\* (empty when the header ends with the value)
Header(name, value, tail) == [name |-> name, value |-> value, tail |-> tail]

\* a Set-Cookie header as the server writes it: "name=value; Path=/"
Cookie(name, value) == Header(name, value, <<";", " ", "Path=/">>)

\* the Set-Cookie header lists a response of the login page or API carries
CookieChoices ==
    { <<>>,
      <<Cookie("sessionid", "s1")>>,
      <<Cookie("csrftoken", "t1"), Cookie("sessionid", "s1")>>,
      <<Cookie("csrftoken", "t1"), Cookie("csrftoken", "t2")>> }

Response(url, text, cookies, title, links) ==
    [url |-> url, text |-> text, cookies |-> cookies, title |-> title,
     links |-> links]

NoResponse == Response(URL(None, None), <<>>, <<>>, None, {})

\* `phrase in response.text`: the text is a sequence of phrases
Contains(text, phrase) == \E i \in DOMAIN text : text[i] = phrase

----------------------------------------------------------------------------
(* Requests *)

Request(method, url, callback, errback, token, dont_filter) ==
    [method |-> method, url |-> url, callback |-> callback,
     errback |-> errback, token |-> token, dont_filter |-> dont_filter]

\* the X-CSRFToken header of a request that sets no such header
NoHeader == "NoHeader"

\* what a callback yields
Out(reqs, its, logs) == [reqs |-> reqs, items |-> its, logs |-> logs]

LogEntry(src, msg) == [src |-> src, msg |-> msg]

----------------------------------------------------------------------------
(* get_csrf_token *)

MaxOf(S) == CHOOSE x \in S : \A y \in S : y <= x

\* match.group(1) where match is None
AttributeError == "AttributeError"

\* re.match("csrftoken=([^ ;]+);", h): the run after "csrftoken=" is not
\* empty and the character that follows it is ";"
csrf_match(h) ==
    h.name = "csrftoken" /\ h.value # "" /\ h.tail # <<>> /\ h.tail[1] = ";"

\* the value of the last header that starts with "csrftoken="; None without
\* cookie headers or without such a header; the AttributeError of
\* match.group(1) when the pattern does not match that header
get_csrf_token(response) ==
    LET cookie_headers == response.cookies
        csrf_headers == {i \in DOMAIN cookie_headers :
                            cookie_headers[i].name = "csrftoken"}
    IN  IF cookie_headers = <<>> THEN None
        ELSE IF csrf_headers = {} THEN None
        ELSE IF csrf_match(cookie_headers[MaxOf(csrf_headers)])
        THEN cookie_headers[MaxOf(csrf_headers)].value
        ELSE AttributeError

----------------------------------------------------------------------------
(* The callbacks of QuestionFinder *)

\* Python truthiness of an optional string
Truthy(x) == x # None /\ x # ""

\* str.strip() on the titles of the site
Strip(title) == IF title = "  Course Info  " THEN "Course Info" ELSE title

\* the three kinds of failure handle_error tells apart
Failures ==
    { [kind |-> "HttpError", status |-> 403],
      [kind |-> "HttpError", status |-> 500],
      [kind |-> "DNSLookupError", status |-> 0],
      [kind |-> "Other", status |-> 0] }

\* handle_error asking for the failed request again
handle_error_retries(failure) ==
    Out(<<[failure.request EXCEPT !.dont_filter = TRUE]>>, <<>>,
        {LogEntry("handle_error", "failure")})

handle_error(failure) ==
    LET base == {LogEntry("handle_error", "failure")}
        http == IF failure.kind = "HttpError"
                THEN {LogEntry("handle_error", "HttpError")} \cup
                     (IF failure.status \in {401, 403}
                      THEN {LogEntry("handle_error", "Credentials failed")}
                      ELSE {})
                ELSE IF failure.kind = "DNSLookupError"
                THEN {LogEntry("handle_error", "DNSLookupError")}
                ELSE {}
    IN  Out(<<>>, <<>>, base \cup http)

\* start_requests with `or` in place of `and`
start_requests_either_credential ==
    IF Truthy(login_email) \/ Truthy(login_password)
    THEN Out(<<Request("GET", HttpURL(LOGIN_HTML_PATH, None),
                       "after_initial_csrf", "handle_error", NoHeader, FALSE)>>,
             <<>>, {})
    ELSE Out(<<>>, <<>>,
             {LogEntry("start_requests",
                       "Please enter valid email/password combination")})

start_requests ==
    IF Truthy(login_email) /\ Truthy(login_password)
    THEN Out(<<Request("GET", HttpURL(LOGIN_HTML_PATH, None),
                       "after_initial_csrf", "handle_error", NoHeader, FALSE)>>,
             <<>>, {})
    ELSE Out(<<>>, <<>>,
             {LogEntry("start_requests",
                       "Please enter valid email/password combination")})

\* after_initial_csrf giving up on a response without a token
after_initial_csrf_needs_token(response) ==
    IF get_csrf_token(response) \in {None, AttributeError}
    THEN Out(<<>>, <<>>, {})
    ELSE Out(<<Request("POST", HttpURL(LOGIN_API_PATH, None),
                       "after_initial_login", "handle_error",
                       get_csrf_token(response), FALSE)>>,
             <<>>, {})

\* the generator raises before its yield when get_csrf_token raises
after_initial_csrf(response) ==
    IF get_csrf_token(response) = AttributeError
    THEN Out(<<>>, <<>>, {LogEntry("after_initial_csrf", AttributeError)})
    ELSE Out(<<Request("POST", HttpURL(LOGIN_API_PATH, None),
                       "after_initial_login", "handle_error",
                       get_csrf_token(response), FALSE)>>,
             <<>>, {})

\* Spider.make_requests_from_url: no callback, no errback, dont_filter=True
make_requests_from_url(url) ==
    Request("GET", url, "parse", None, NoHeader, TRUE)

\* after_initial_login without the `return` that follows the error log
after_initial_login_no_return(response) ==
    Out([i \in DOMAIN start_urls |-> make_requests_from_url(start_urls[i])],
        <<>>,
        IF Contains(response.text, LOGIN_FAILURE_MSG)
        THEN {LogEntry("after_initial_login", "Credentials failed")}
        ELSE {LogEntry("after_initial_login",
                       "successfully completed initial login")})

after_initial_login(response) ==
    IF Contains(response.text, LOGIN_FAILURE_MSG)
    THEN Out(<<>>, <<>>,
             {LogEntry("after_initial_login", "Credentials failed")})
    ELSE Out([i \in DOMAIN start_urls |-> make_requests_from_url(start_urls[i])],
             <<>>,
             {LogEntry("after_initial_login",
                       "successfully completed initial login")})

\* the re-authentication login request with dont_filter=True
reauth_dont_filter(response) ==
    LET next_url == response.url.next
        login_url == IF Truthy(next_url)
                     THEN HttpURL(LOGIN_API_PATH, next_url)
                     ELSE HttpURL(LOGIN_API_PATH, None)
    IN  <<Request("POST", login_url, "after_login", "handle_error",
                  get_csrf_token(response), TRUE)>>

\* the re-authentication login request with the initial login's callback
reauth_initial_callback(response) ==
    LET next_url == response.url.next
        login_url == IF Truthy(next_url)
                     THEN HttpURL(LOGIN_API_PATH, next_url)
                     ELSE HttpURL(LOGIN_API_PATH, None)
    IN  <<Request("POST", login_url, "after_initial_login", "handle_error",
                  get_csrf_token(response), FALSE)>>

\* the re-authentication login request without the `next` parameter
reauth_drops_next(response) ==
    <<Request("POST", HttpURL(LOGIN_API_PATH, None), "after_login",
              "handle_error", get_csrf_token(response), FALSE)>>

\* the re-authentication login request with a token kept from before
reauth_cached_token(response) ==
    LET next_url == response.url.next
        login_url == IF Truthy(next_url)
                     THEN HttpURL(LOGIN_API_PATH, next_url)
                     ELSE HttpURL(LOGIN_API_PATH, None)
    IN  <<Request("POST", login_url, "after_login", "handle_error",
                  "t1", FALSE)>>

\* no new re-authentication while one is in flight
reauth_single_flight(response) ==
    LET next_url == response.url.next
        login_url == IF Truthy(next_url)
                     THEN HttpURL(LOGIN_API_PATH, next_url)
                     ELSE HttpURL(LOGIN_API_PATH, None)
    IN  IF \E r \in queue : r.callback = "after_login" THEN <<>>
        ELSE <<Request("POST", login_url, "after_login", "handle_error",
                       get_csrf_token(response), FALSE)>>

\* (yields nothing when get_csrf_token raises)
handle_unexpected_redirect_to_login_page(response) ==
    LET next_url == response.url.next
        login_url == IF Truthy(next_url)
                     THEN HttpURL(LOGIN_API_PATH, next_url)
                     ELSE HttpURL(LOGIN_API_PATH, None)
    IN  IF get_csrf_token(response) = AttributeError THEN <<>>
        ELSE <<Request("POST", login_url, "after_login", "handle_error",
                       get_csrf_token(response), FALSE)>>

\* no return after the requests of the re-authentication: the item follows;
\* an exception raised by the re-authentication ends the generator
parse_item(response) ==
    LET reqs == IF response.url.path = LOGIN_HTML_PATH
                THEN handle_unexpected_redirect_to_login_page(response)
                ELSE <<>>
        title == IF Truthy(response.title) THEN Strip(response.title)
                 ELSE response.title
        item == [url |-> response.url, page_title |-> title]
    IN  IF response.url.path = LOGIN_HTML_PATH
           /\ get_csrf_token(response) = AttributeError
        THEN Out(<<>>, <<>>, {LogEntry("parse_item", AttributeError)})
        ELSE Out(reqs, <<item>>, {})

after_login(response) == parse_item(response)

\* CrawlSpider.parse_start_url, the callback of CrawlSpider.parse
parse_start_url(response) == Out(<<>>, <<>>, {})

Callback(name, response) ==
    CASE name = "after_initial_csrf" -> after_initial_csrf(response)
      [] name = "after_initial_login" -> after_initial_login(response)
      [] name = "after_login" -> after_login(response)
      [] name = "parse_item" -> parse_item(response)
      [] name = "parse" -> parse_start_url(response)

----------------------------------------------------------------------------
(* The engine: scheduling with the duplicate filter, link following *)

Min(a, b) == IF a < b THEN a ELSE b

\* a saturating counter per key
Incr(f, k) == IF k \in DOMAIN f THEN [f EXCEPT ![k] = Min(@ + 1, Cap)]
              ELSE f @@ (k :> 1)

\* the request fingerprint (the form body is the same for every login)
fingerprint(r) == <<r.method, r.url>>

\* Scheduler.enqueue_request: a request with dont_filter=False whose
\* fingerprint was seen is dropped; one with dont_filter=True is neither
\* checked nor recorded
enqueue_request(st, r) ==
    IF ~r.dont_filter /\ fingerprint(r) \in st.seen
    THEN st
    ELSE [queue |-> st.queue \cup {r},
          seen |-> IF r.dont_filter THEN st.seen
                   ELSE st.seen \cup {fingerprint(r)},
          ndisp |-> Incr(st.ndisp, r.url)]

RECURSIVE enqueue_seq(_, _)
enqueue_seq(st, reqs) ==
    IF reqs = <<>> THEN st
    ELSE enqueue_seq(enqueue_request(st, Head(reqs)), Tail(reqs))

RECURSIVE enqueue_set(_, _)
enqueue_set(st, reqs) ==
    IF reqs = {} THEN st
    ELSE LET r == CHOOSE x \in reqs : TRUE
         IN  enqueue_set(enqueue_request(st, r), reqs \ {r})

\* deny r"/logout/", searched in the URL: a segment "logout" with a slash
\* after it
deny_logout(link) ==
    \E i \in 1..(Len(Segments(link.path)) - 1) :
        Segments(link.path)[i] = "logout"

\* deny r"://[^/]+/xblock/": "xblock" is the segment right after the host,
\* with a slash after it
deny_xblock(link) ==
    Len(Segments(link.path)) >= 2 /\ Segments(link.path)[1] = "xblock"

\* deny r"\?_accept=application/x-tgz": the parameter right after the "?"
deny_archive(link) ==
    link.next = None /\ link.query # <<>> /\ link.query[1] = ARCHIVE

\* LinkExtractor(deny=[...]): a link that matches no deny pattern
link_allowed(link) ==
    ~(deny_logout(link) \/ deny_xblock(link) \/ deny_archive(link))

\* the one Rule of the spider: every extracted link is requested with
\* callback parse_item, follow=True and no errback
_requests_to_follow(response) ==
    {Request("GET", link, "parse_item", None, NoHeader, FALSE) :
        link \in {l \in response.links : link_allowed(l)}}

\* the callbacks whose responses have their links followed: the Rule's
\* callback and CrawlSpider.parse (the default callback)
Follows(callback) == callback \in {"parse", "parse_item"}

RECURSIVE AddItems(_, _)
AddItems(b, its) ==
    IF its = <<>> THEN b ELSE AddItems(Incr(b, Head(its)), Tail(its))

----------------------------------------------------------------------------
(* The server *)

PageResponse(path) ==
    Response(URL(path, None), <<"page">>, <<>>, Title(path), Links(path))

LoginPage(url, cookies) ==
    Response(url, <<"Sign in">>, cookies, "Sign in", {})

\* the answers to request r: the response and the session afterwards
Answers(r) ==
    IF r.url.path = LOGIN_API_PATH
    THEN IF accepted
         THEN {[response |-> IF r.url.next # None
                             THEN PageResponse(r.url.next)
                             ELSE Response(r.url, <<"success">>, c, None, {}),
                session |-> TRUE] : c \in CookieChoices}
         ELSE {[response |-> Response(r.url, <<"error", LOGIN_FAILURE_MSG>>,
                                      c, None, {}),
                session |-> session] : c \in CookieChoices}
              \cup
              {[response |-> LoginPage(URL(LOGIN_HTML_PATH, r.url.next), c),
                session |-> session] : c \in CookieChoices}
    ELSE IF r.url.path = LOGIN_HTML_PATH
    THEN {[response |-> LoginPage(r.url, c), session |-> session] :
             c \in CookieChoices}
    ELSE IF session \/ r.url.path \in public
    THEN {[response |-> [PageResponse(r.url.path) EXCEPT !.url = r.url],
           session |-> session]}
    ELSE {[response |-> LoginPage(URL(LOGIN_HTML_PATH, r.url.path), c),
           session |-> session] : c \in CookieChoices}

----------------------------------------------------------------------------
(* Init and the actions *)

\* get_csrf_token has not been applied
Unset == "unset"

NoLast == [handler |-> "none", response |-> NoResponse, reqs |-> <<>>,
           items |-> <<>>]

Init ==
    /\ login_email \in {None, "", "staff@example.com"}
    /\ login_password \in {None, "", "edx"}
    /\ accepted \in BOOLEAN
    /\ public \in {{}, {Seed}}
    /\ session = FALSE
    /\ started = FALSE
    /\ queue = {}
    /\ seen = {}
    /\ ndisp = <<>>
    /\ items = <<>>
    /\ log = {}
    /\ last = NoLast
    /\ drops = 0
    /\ nerrors = 0
    /\ login_visits = 0
    /\ reauth_subs = 0
    /\ set_cookie = <<>>
    /\ csrf_token = Unset

\* the engine opens the spider and schedules what start_requests yields
Start ==
    /\ ~started
    /\ started' = TRUE
    /\ LET out == start_requests
           st == enqueue_seq([queue |-> queue, seen |-> seen, ndisp |-> ndisp],
                             out.reqs)
       IN  /\ queue' = st.queue
           /\ seen' = st.seen
           /\ ndisp' = st.ndisp
           /\ log' = log \cup out.logs
           /\ last' = [handler |-> "start_requests", response |-> NoResponse,
                       reqs |-> out.reqs, items |-> out.items]
    /\ UNCHANGED <<login_email, login_password, accepted, public, session,
                   items, drops, nerrors, login_visits, reauth_subs,
                   set_cookie, csrf_token>>

\* a response arrives: its callback runs, then (for the Rule's callback and
\* the default one) the links are followed
Deliver(r) ==
    /\ r \in queue
    /\ \E a \in Answers(r) :
         LET out == Callback(r.callback, a.response)
             follow == IF Follows(r.callback)
                       THEN _requests_to_follow(a.response) ELSE {}
             st0 == [queue |-> queue \ {r}, seen |-> seen, ndisp |-> ndisp]
             st1 == enqueue_seq(st0, out.reqs)
             st2 == enqueue_set(st1, follow)
         IN  /\ session' = a.session
             /\ queue' = st2.queue
             /\ seen' = st2.seen
             /\ ndisp' = st2.ndisp
             /\ items' = AddItems(items, out.items)
             /\ log' = log \cup out.logs
             /\ last' = [handler |-> r.callback, response |-> a.response,
                         reqs |-> out.reqs, items |-> out.items]
             /\ login_visits' =
                  IF r.callback \in {"parse_item", "after_login"}
                     /\ a.response.url.path = LOGIN_HTML_PATH
                  THEN Min(login_visits + 1, Cap) ELSE login_visits
             /\ reauth_subs' =
                  Min(reauth_subs
                        + Cardinality({i \in DOMAIN out.reqs :
                                         out.reqs[i].callback = "after_login"}),
                      Cap)
    /\ UNCHANGED <<login_email, login_password, accepted, public, started,
                   drops, nerrors, set_cookie, csrf_token>>

\* a request fails: its errback, when it has one, runs, and what it yields
\* is scheduled
Fail(r) ==
    /\ r \in queue
    /\ nerrors < MaxErrors
    /\ nerrors' = nerrors + 1
    /\ \E f \in Failures :
         LET failure == [kind |-> f.kind, status |-> f.status, request |-> r]
             out == IF r.errback = "handle_error" THEN handle_error(failure)
                    ELSE Out(<<>>, <<>>, {})
             st0 == [queue |-> queue \ {r}, seen |-> seen, ndisp |-> ndisp]
             st1 == enqueue_seq(st0, out.reqs)
         IN  /\ queue' = st1.queue
             /\ seen' = st1.seen
             /\ ndisp' = st1.ndisp
             /\ items' = AddItems(items, out.items)
             /\ log' = log \cup out.logs
             /\ last' = IF r.errback = "handle_error"
                        THEN [handler |-> "handle_error",
                              response |-> NoResponse,
                              reqs |-> out.reqs, items |-> out.items]
                        ELSE last
    /\ UNCHANGED <<login_email, login_password, accepted, public, session,
                   started, drops, login_visits, reauth_subs, set_cookie, csrf_token>>

\* the server logs the crawler out
DropSession ==
    /\ session
    /\ drops < MaxDrops
    /\ session' = FALSE
    /\ drops' = drops + 1
    /\ UNCHANGED <<login_email, login_password, accepted, public, started,
                   queue, seen, ndisp, items, log, last, nerrors,
                   login_visits, reauth_subs, set_cookie, csrf_token>>

Respond == \E r \in queue : Deliver(r)

Error == \E r \in queue : Fail(r)

Next == Start \/ Respond \/ Error \/ DropSession

Spec == Init /\ [][Next]_vars

\* the engine runs start_requests and every request in flight gets its
\* response or its failure
FairSpec == Spec /\ WF_vars(Start) /\ WF_vars(Respond)

----------------------------------------------------------------------------
(* get_csrf_token alone, on every list of Set-Cookie headers *)

HeaderNames == {"csrftoken", "sessionid"}
HeaderValues == {"", "abc123", "t2"}
HeaderTails == {<<>>, <<";">>, <<" ">>, <<";", " ", "Path=/">>,
                <<" ", "Path=/">>}

HeaderSet == {Header(n, v, t) : n \in HeaderNames, v \in HeaderValues,
                                t \in HeaderTails}

HeaderLists == UNION {[1..n -> HeaderSet] : n \in 0..MaxHeaders}

TokenInit ==
    /\ login_email = None
    /\ login_password = None
    /\ accepted = FALSE
    /\ public = {}
    /\ session = FALSE
    /\ started = FALSE
    /\ queue = {}
    /\ seen = {}
    /\ ndisp = <<>>
    /\ items = <<>>
    /\ log = {}
    /\ last = NoLast
    /\ drops = 0
    /\ nerrors = 0
    /\ login_visits = 0
    /\ reauth_subs = 0
    /\ set_cookie \in HeaderLists
    /\ csrf_token = Unset

Extract ==
    /\ csrf_token = Unset
    /\ csrf_token' = get_csrf_token(Response(URL(None, None), <<>>,
                                             set_cookie, None, {}))
    /\ UNCHANGED <<login_email, login_password, accepted, public, session,
                   started, queue, seen, ndisp, items, log, last, drops,
                   nerrors, login_visits, reauth_subs, set_cookie>>

TokenSpec == TokenInit /\ [][Extract]_vars

----------------------------------------------------------------------------
(* Claims *)

CredsPresent == Truthy(login_email) /\ Truthy(login_password)

\* parse_item has run on the last response, as the Rule's callback or
\* through after_login
VisitRan == last.handler \in {"parse_item", "after_login"}

\* the last response visited was a login page: re-authentication ran
ReauthRan == VisitRan /\ last.response.url.path = LOGIN_HTML_PATH

InitialLoginFailed ==
    LogEntry("after_initial_login", "Credentials failed") \in log

\* C1: a response delivered to parse_item yields a page record iff its path
\* is not the login path: one record and no request for a non-login
\* response, no record for a login-path response.
C1_RecordIffNotLoginPath ==
    VisitRan =>
        IF last.response.url.path = LOGIN_HTML_PATH
        THEN Len(last.items) = 0
        ELSE Len(last.items) = 1 /\ Len(last.reqs) = 0

\* C2: when the response to a re-authentication login submission contains
\* the login-failure phrase, after_login yields no request and no record.
C2_ReauthFailureYieldsNothing ==
    (last.handler = "after_login"
        /\ Contains(last.response.text, LOGIN_FAILURE_MSG))
    => (last.reqs = <<>> /\ last.items = <<>>)

\* C3: when the initial login response contains the failure phrase,
\* after_initial_login yields no request, and from then on nothing is in
\* flight, no request is dispatched and no page record is emitted.
C3_InitialFailureIsTerminal ==
    /\ [](InitialLoginFailed =>
            /\ queue = {}
            /\ DOMAIN items = {}
            /\ (last.handler = "after_initial_login" => last.reqs = <<>>))
    /\ [][InitialLoginFailed =>
            (queue' = queue /\ ndisp' = ndisp /\ items' = items)]_vars

C3_Witness ==
    /\ InitialLoginFailed
    /\ last.handler = "after_initial_login"
    /\ Contains(last.response.text, LOGIN_FAILURE_MSG)

\* C4: when the server rejects every login submission (by the failure
\* phrase or by a redirect back to the login page), then, every response
\* being delivered, the crawl comes to have no request in flight for good.
C4_RejectedCrawlStops == (~accepted) => <>[](queue = {})

\* a rejected re-authentication came back as a login page, and the login
\* submission yielded for it was not dispatched again
C4_Witness ==
    /\ ~accepted
    /\ last.handler = "after_login"
    /\ last.response.url.path = LOGIN_HTML_PATH
    /\ Len(last.reqs) = 1
    /\ queue = {}

\* C5: at most one request is dispatched for a URL and at most one page
\* record is emitted with a URL.
C5_UrlVisitedAtMostOnce ==
    /\ \A u \in DOMAIN ndisp : ndisp[u] <= 1
    /\ \A it \in DOMAIN items : items[it] <= 1
    /\ \A i1, i2 \in DOMAIN items : i1.url = i2.url => i1 = i2

\* the crawl has run and nothing is in flight
Quiescent == started /\ queue = {}

Visited(path) == \E it \in DOMAIN items : it.url = URL(path, None)

\* a re-authentication for the page was dispatched: its request had been
\* redirected to the login page
Interrupted(path) == <<"POST", HttpURL(LOGIN_API_PATH, path)>> \in seen

\* C6: with accepted credentials (and no transport failure), when the crawl
\* ends, every page whose request was redirected to the login page has its
\* page record, and so has every page it links to: the interrupted page is
\* resumed and the links on the resumed page are followed.
C6_ResumedPageAndItsLinksVisited ==
    (Quiescent /\ CredsPresent /\ accepted /\ nerrors = 0)
    => \A p \in Pages :
          Interrupted(p) =>
              /\ Visited(p)
              /\ \A l \in Links(p) : l.path \in Pages => Visited(l.path)

\* C7 as stated: the re-authentication yields one request, a GET of the
\* login page whose callback handles the re-authentication CSRF response.
C7_ReauthFetchesCsrfFirst ==
    ReauthRan =>
        /\ Len(last.reqs) = 1
        /\ last.reqs[1].method = "GET"
        /\ last.reqs[1].url.path = LOGIN_HTML_PATH
        /\ last.reqs[1].callback \notin {"after_login", "after_initial_login"}

\* C7, amended: the re-authentication yields exactly one request, and that
\* request is the login form submission itself: a POST to the login API
\* with callback after_login and errback handle_error.
C7_ReauthYieldsOneLoginSubmission ==
    ReauthRan =>
        /\ Len(last.reqs) = 1
        /\ last.reqs[1].method = "POST"
        /\ last.reqs[1].url.path = LOGIN_API_PATH
        /\ last.reqs[1].callback = "after_login"
        /\ last.reqs[1].errback = "handle_error"

C7_Witness ==
    /\ last.handler = "parse_item"
    /\ last.response.url.path = LOGIN_HTML_PATH
    /\ session = FALSE
    /\ drops = 1

\* C8: the login request of a re-authentication carries the `next` of the
\* login-path response it answers, and no `next` when that URL has none.
C8_NextThreaded ==
    ReauthRan =>
        /\ Len(last.reqs) = 1
        /\ last.reqs[1].url.next = last.response.url.next

\* a login page without `next` was visited in a crawl that had dispatched
\* a login submission carrying a `next`
C8_Witness ==
    /\ ReauthRan
    /\ last.response.url.next = None
    /\ \E f \in seen : f[1] = "POST" /\ f[2].next \in Pages

\* C9: start_requests yields exactly one request, a GET of the login page
\* with callback after_initial_csrf and errback handle_error, when email
\* and password are both non-empty; otherwise it yields none, and nothing
\* is ever dispatched or emitted.
C9_StartNeedsBothCredentials ==
    started =>
        IF CredsPresent
        THEN last.handler = "start_requests" =>
                last.reqs = <<Request("GET", HttpURL(LOGIN_HTML_PATH, None),
                                      "after_initial_csrf", "handle_error",
                                      NoHeader, FALSE)>>
        ELSE /\ last.handler = "start_requests"
             /\ last.reqs = <<>>
             /\ queue = {}
             /\ DOMAIN ndisp = {}
             /\ DOMAIN items = {}

\* exactly one of the two credentials is set
C9_Witness ==
    /\ started
    /\ ~CredsPresent
    /\ (Truthy(login_email) \/ Truthy(login_password))

\* C10: after an initial login response without the failure phrase there
\* is one request per start URL, each with parse_item as its callback.
C10_SeedsCallParseItem ==
    (last.handler = "after_initial_login"
        /\ ~Contains(last.response.text, LOGIN_FAILURE_MSG))
    => /\ Len(last.reqs) = Len(start_urls)
       /\ \A i \in DOMAIN start_urls :
            /\ last.reqs[i].url = start_urls[i]
            /\ last.reqs[i].callback = "parse_item"

\* the indices of the headers that begin with the token cookie's name
CsrfHeaders(cookies) == {i \in DOMAIN cookies : cookies[i].name = "csrftoken"}

\* C11 as stated: after_initial_csrf yields no login request for a response
\* without Set-Cookie headers, and one login request with the token None
\* for a response whose cookies do not include the token cookie.
C11_NoCookiesNoLoginRequest ==
    last.handler = "after_initial_csrf" =>
        IF last.response.cookies = <<>>
        THEN last.reqs = <<>>
        ELSE CsrfHeaders(last.response.cookies) = {} =>
                (Len(last.reqs) = 1 /\ last.reqs[1].token = None)

\* C11, amended: after_initial_csrf yields exactly one login form request,
\* with the token None, both for a response without Set-Cookie headers and
\* for one whose cookies do not include the token cookie.
C11_LoginRequestWithoutToken ==
    (last.handler = "after_initial_csrf"
        /\ CsrfHeaders(last.response.cookies) = {})
    => /\ Len(last.reqs) = 1
       /\ last.reqs[1].method = "POST"
       /\ last.reqs[1].url = HttpURL(LOGIN_API_PATH, None)
       /\ last.reqs[1].callback = "after_initial_login"
       /\ last.reqs[1].token = None

C11_Witness ==
    /\ last.handler = "after_initial_csrf"
    /\ last.response.cookies = <<>>
    /\ \E r \in queue : r.callback = "after_initial_login"

\* C12: every request in flight carries the error callback.
C12_EveryRequestHasErrback ==
    \A r \in queue : r.errback = "handle_error"

\* a URL the exclusion rules name: a path containing /logout/ or /xblock/
\* at any depth, a query with the archive parameter at any position
Excluded(u) ==
    \/ \E i \in 1..(Len(Segments(u.path)) - 1) :
          Segments(u.path)[i] \in {"logout", "xblock"}
    \/ \E i \in DOMAIN u.query : u.query[i] = ARCHIVE

\* C13: no request is dispatched for an excluded URL.
C13_ExcludedLinksNeverFollowed ==
    \A u \in DOMAIN ndisp : ~Excluded(u)

\* C14: for one header that begins with the token cookie's name and whose
\* value is ended by ";" or by whitespace, get_csrf_token returns the value.
C14_TokenUpToDelimiter ==
    (csrf_token # Unset
        /\ Len(set_cookie) = 1
        /\ set_cookie[1].name = "csrftoken"
        /\ set_cookie[1].value # ""
        /\ set_cookie[1].tail # <<>>
        /\ set_cookie[1].tail[1] \in {";", " "})
    => csrf_token = set_cookie[1].value

\* every token header carries a value ended by a delimiter
Delimited(cookies) ==
    \A i \in CsrfHeaders(cookies) :
        /\ cookies[i].value # ""
        /\ cookies[i].tail # <<>>
        /\ cookies[i].tail[1] \in {";", " "}

\* C15: get_csrf_token returns None when no header begins with the token
\* cookie's name, and the value of the last such header otherwise.
C15_LastTokenHeaderWins ==
    (csrf_token # Unset
        /\ Delimited(set_cookie)
        /\ Cardinality(CsrfHeaders(set_cookie)) # 1)
    => IF CsrfHeaders(set_cookie) = {}
       THEN csrf_token = None
       ELSE csrf_token = set_cookie[MaxOf(CsrfHeaders(set_cookie))].value

\* C16: every page record has the four fields of the output record.
C16_RecordHasFourFields ==
    \A it \in DOMAIN items :
        {"url", "request_headers", "accessed_at", "page_title"}
            \subseteq DOMAIN it

LoginSucceeded ==
    LogEntry("after_initial_login", "successfully completed initial login")
        \in log

WithCallback(q, callback) == {r \in q : r.callback = callback}

\* C17: no seed or page request is in flight and no page record exists
\* before the initial login was found successful; a seed request is issued
\* only by after_initial_login on a response without the failure phrase;
\* the initial login submission is issued only by after_initial_csrf, run
\* on the response to the CSRF fetch.
C17_VisitsOnlyAfterLogin ==
    /\ []((DOMAIN items # {}
             \/ WithCallback(queue, "parse") # {}
             \/ WithCallback(queue, "parse_item") # {})
          => LoginSucceeded)
    /\ [][~(WithCallback(queue', "parse") \subseteq WithCallback(queue, "parse"))
          => (last'.handler = "after_initial_login"
                /\ ~Contains(last'.response.text, LOGIN_FAILURE_MSG))]_vars
    /\ [][~(WithCallback(queue', "after_initial_login")
              \subseteq WithCallback(queue, "after_initial_login"))
          => (last'.handler = "after_initial_csrf"
                /\ WithCallback(queue, "after_initial_csrf") # {}
                /\ WithCallback(queue', "after_initial_csrf") = {})]_vars

C17_Witness == LoginSucceeded /\ DOMAIN items # {}

\* C18: every login form submission carries the token of the response
\* whose handling yielded it: the value of the last token cookie of that
\* response, None when it has none.
C18_TokenFromOwnResponse ==
    \A i \in DOMAIN last.reqs :
        last.reqs[i].method = "POST" =>
            last.reqs[i].token =
                IF CsrfHeaders(last.response.cookies) = {} THEN None
                ELSE last.response.cookies[
                         MaxOf(CsrfHeaders(last.response.cookies))].value

\* a re-authentication after a session drop whose submission carries the
\* second token of its login page
C18_Witness ==
    /\ ReauthRan
    /\ drops = 1
    /\ Len(last.reqs) = 1
    /\ last.reqs[1].token = "t2"

\* C19: a transport failure takes its one request out of flight and changes
\* nothing else: handle_error yields no request, and the requests seen, the
\* requests dispatched, the page records and the session stay as they were.
C19_FailureTouchesOneRequest ==
    [][nerrors' # nerrors =>
        /\ \E r \in queue : queue' = queue \ {r}
        /\ seen' = seen
        /\ ndisp' = ndisp
        /\ items' = items
        /\ session' = session
        /\ (last'.handler = "handle_error" =>
                (last'.reqs = <<>> /\ last'.items = <<>>))]_vars

\* handle_error has run while other requests are in flight
C19_Witness ==
    /\ last.handler = "handle_error"
    /\ nerrors = 1
    /\ WithCallback(queue, "parse_item") # {}

\* C20: each login-path response visited yields exactly one login
\* submission, also while other re-authentications are in flight: as many
\* submissions were yielded as login-path responses were visited.
C20_OneSubmissionPerLoginResponse ==
    /\ reauth_subs = login_visits
    /\ ReauthRan =>
         Cardinality({i \in DOMAIN last.reqs :
                        last.reqs[i].callback = "after_login"}) = 1

\* a login-path response was visited while the login submission of another
\* re-authentication was in flight
C20_Witness ==
    /\ ReauthRan
    /\ Len(last.reqs) = 1
    /\ \E r \in queue :
          r.callback = "after_login" /\ r.url # last.reqs[1].url

====
